---- MODULE Spec2Model ----
(***************************************************************************)
(* Model of interest_sim.py: simulate_interest, the month-by-month         *)
(* amortization loop, together with the CSV export it calls.               *)
(*                                                                         *)
(* Numbers.  Python floats are modelled as exact rationals <<n, d>> with   *)
(* d > 0 in lowest terms.  The nonzero rates of the small input family     *)
(* are 3 and 6 per year (0.25 and 0.5 per month), for which every balance, *)
(* interest and total of a run is a dyadic rational with few bits, so the  *)
(* float arithmetic of the program is exact on them.  interest_percentage  *)
(* is the one field whose float value is rounded; it is kept exact here.   *)
(***************************************************************************)
EXTENDS Integers, Sequences, FiniteSets, TLC

(* ---------------------------------------------------------------------- *)
(* Bounds of the input families                                            *)
(* ---------------------------------------------------------------------- *)
MaxPrincipal == 4
MaxRepayment == 3
MaxMonths == 3

(* src/interest_sim.py:68 *)
MAX_ITERATIONS == 1000

(* ---------------------------------------------------------------------- *)
(* Exact rational arithmetic (the float operators +, -, *, /, <=, <)       *)
(* ---------------------------------------------------------------------- *)
(* The operators are applications of functions, so that an argument is    *)
(* evaluated once, where it is applied.                                    *)
Abs(x) == IF x < 0 THEN -x ELSE x

gcd[a \in Nat, b \in Nat] == IF b = 0 THEN a ELSE gcd[b, a % b]

GCD(a, b) == gcd[a, b]

norm[n \in Int, d \in Int] ==
    LET g == gcd[Abs(n), Abs(d)]
        s == IF d < 0 THEN -1 ELSE 1
    IN  <<s * (n \div g), s * (d \div g)>>

Norm(n, d) == norm[n, d]

Rat(i) == <<i, 1>>

Rational == Int \X Int

radd[x \in Rational, y \in Rational] ==
    LET g == gcd[x[2], y[2]]
    IN  norm[x[1] * (y[2] \div g) + y[1] * (x[2] \div g), (x[2] \div g) * y[2]]

RAdd(x, y) == radd[x, y]

RNeg(x) == <<-x[1], x[2]>>

RSub(x, y) == radd[x, RNeg(y)]

rmul[x \in Rational, y \in Rational] ==
    LET a == norm[x[1], y[2]]
        b == norm[y[1], x[2]]
    IN  norm[a[1] * b[1], a[2] * b[2]]

RMul(x, y) == rmul[x, y]

(* x / y, for y # 0 *)
RDiv(x, y) == rmul[x, norm[y[2], y[1]]]

RLt(x, y) == RSub(x, y)[1] < 0

RLe(x, y) == RSub(x, y)[1] <= 0

RZero == Rat(0)

(* ---------------------------------------------------------------------- *)
(* Inputs: the arguments of simulate_interest                              *)
(* ---------------------------------------------------------------------- *)
Args(p, r, d, a, m, e) ==
    [principal |-> p, repayment |-> r, downpayment |-> d,
     annual_interest_rate |-> a, months |-> m, export_to_csv |-> e]

(* every combination of small amounts, valid or not *)
SmallInputs ==
    { Args(Rat(p), Rat(r), Rat(d), Rat(a), m, e) :
        p \in 0..MaxPrincipal, r \in 0..MaxRepayment, d \in -1..(MaxPrincipal + 1),
        a \in {-3, 0, 3, 6}, m \in 0..MaxMonths, e \in BOOLEAN }

(* the worked examples of the documentation *)
ExampleInputs ==
    { Args(Rat(1000), Rat(1), Rat(0), <<3, 25>>, 0, FALSE),
      Args(Rat(1000), Rat(100), Rat(1500), Rat(0), 0, FALSE),
      Args(Rat(1000), Rat(100), Rat(0), Rat(0), 10, FALSE),
      Args(Rat(105), Rat(100), Rat(0), Rat(0), 0, TRUE),
      Args(Rat(1), Rat(1), Rat(0), Rat(0), -1, FALSE) }

(* loans that need about MAX_ITERATIONS months *)
CeilingInputs ==
    { Args(Rat(MAX_ITERATIONS + p), Rat(1), Rat(0), Rat(0), m, FALSE) :
        p \in 0..2, m \in {0, MAX_ITERATIONS, 2 * MAX_ITERATIONS} }
    \cup { Args(Rat(MAX_ITERATIONS + 2), Rat(1), Rat(0), Rat(0), 0, TRUE) }

Inputs == SmallInputs \cup ExampleInputs \cup CeilingInputs

(* ---------------------------------------------------------------------- *)
(* State                                                                   *)
(* ---------------------------------------------------------------------- *)
VARIABLES
    args,                   \* the arguments of the call
    pc,                     \* "validate", "while", "check", "returned", "raised"
    accumulated_interest,
    total_paid,
    balance,
    monthly_interest_rate,
    month_counter,
    results,                \* the list of MonthlyResult built so far
    returned,               \* <<>> or <<the list returned>>
    raised,                 \* the exception raised, type "None" if none
    csv_file,               \* the rows of the file csv_filename
    log                     \* number of logging.info calls made

vars == <<args, pc, accumulated_interest, total_paid, balance,
          monthly_interest_rate, month_counter, results, returned, raised,
          csv_file, log>>

locals == <<accumulated_interest, total_paid, balance, monthly_interest_rate,
            month_counter, results>>

NoException == [type |-> "None", message |-> ""]

ValueError(msg) == [type |-> "ValueError", message |-> msg]

RuntimeError(msg) == [type |-> "RuntimeError", message |-> msg]

Init ==
    /\ args \in Inputs
    /\ pc = "validate"
    /\ accumulated_interest = RZero
    /\ total_paid = RZero
    /\ balance = RZero
    /\ monthly_interest_rate = RZero
    /\ month_counter = 0
    /\ results = <<>>
    /\ returned = <<>>
    /\ raised = NoException
    /\ csv_file = <<>>
    /\ log = 0

(* ---------------------------------------------------------------------- *)
(* Argument validation, lines 50-59, and the initialisation, lines 61-66   *)
(* ---------------------------------------------------------------------- *)
(* the comparison of line 54 written >= *)
ValidationError_RejectsEqual(a) ==
    IF RLe(a.principal, RZero)
    THEN ValueError("Principal must be greater than zero.")
    ELSE IF RLt(a.downpayment, RZero)
    THEN ValueError("Downpayment cannot be negative.")
    ELSE IF RLe(a.principal, a.downpayment)
    THEN ValueError("Downpayment cannot exceed the principal.")
    ELSE IF RLe(a.repayment, RZero) \/ RLt(a.annual_interest_rate, RZero)
    THEN ValueError("Repayment must be positive and interest rate cannot be negative.")
    ELSE NoException

ValidationError(a) ==
    IF RLe(a.principal, RZero)
    THEN ValueError("Principal must be greater than zero.")
    ELSE IF RLt(a.downpayment, RZero)
    THEN ValueError("Downpayment cannot be negative.")
    ELSE IF RLt(a.principal, a.downpayment)
    THEN ValueError("Downpayment cannot exceed the principal.")
    ELSE IF RLe(a.repayment, RZero) \/ RLt(a.annual_interest_rate, RZero)
    THEN ValueError("Repayment must be positive and interest rate cannot be negative.")
    ELSE NoException

Validate ==
    /\ pc = "validate"
    /\ LET e == ValidationError(args)
       IN  IF e # NoException
           THEN /\ raised' = e
                /\ pc' = "raised"
                /\ UNCHANGED locals
           ELSE /\ accumulated_interest' = RZero
                /\ total_paid' = RZero
                /\ balance' = RSub(args.principal, args.downpayment)
                /\ monthly_interest_rate' = RDiv(args.annual_interest_rate, Rat(12))
                /\ month_counter' = 0
                /\ results' = <<>>
                /\ pc' = "while"
                /\ UNCHANGED raised
    /\ UNCHANGED <<args, returned, csv_file, log>>

(* ---------------------------------------------------------------------- *)
(* The loop, lines 70-117                                                  *)
(* ---------------------------------------------------------------------- *)
(* the loop condition written <= *)
LoopCondition_OneMore(months, counter) == months = 0 \/ counter <= months

(* line 70: while months == 0 or month_counter < months *)
LoopCondition(months, counter) == months = 0 \/ counter < months

(* line 71 *)
FullyRepaid(b) == RLe(b, RZero)

(* the comparison of line 74 written < *)
TooLow_Strict(rep, rate, b) == RLt(rep, RMul(rate, b))

(* line 74 *)
TooLow(rep, rate, b) == RLe(rep, RMul(rate, b))

(* the interest computed with the annual rate *)
calculate_monthly_interest_Annual(b, rate) == RMul(b, RMul(rate, Rat(12)))

(* lines 21-23 *)
calculate_monthly_interest(b, rate) == RMul(b, rate)

(* line 81 *)
NewBalance(b, interest, rep) == RAdd(b, RSub(interest, rep))

(* line 87 written total_paid -= balance *)
NewTotalPaid_Subtracts(paid, rep, nb) ==
    IF RLt(nb, RZero) THEN RSub(RAdd(paid, rep), nb) ELSE RAdd(paid, rep)

(* line 83 skipped in the month of the overshoot *)
NewTotalPaid_SkipsRepayment(paid, rep, nb) ==
    IF RLt(nb, RZero) THEN RAdd(paid, nb) ELSE RAdd(paid, rep)

(* lines 83, 86-87: total_paid after the month, nb the balance of line 81 *)
NewTotalPaid(paid, rep, nb) ==
    IF RLt(nb, RZero) THEN RAdd(RAdd(paid, rep), nb) ELSE RAdd(paid, rep)

(* lines 86-88 *)
Clamp(nb) == IF RLt(nb, RZero) THEN RZero ELSE nb

(* lines 97-99 *)
InterestPercentage(acc, paid) ==
    IF RLt(RZero, paid) THEN RMul(RDiv(acc, paid), Rat(100)) ELSE RZero

(* the comparison of line 103 written >= *)
LimitExceeded_AtLimit(counter) == counter >= MAX_ITERATIONS

(* line 103 testing the horizon instead of the counter *)
LimitExceeded_Horizon(counter) == args.months > MAX_ITERATIONS

(* line 103 *)
LimitExceeded(counter) == counter > MAX_ITERATIONS

(* the loop condition is false: fall through to return results, line 119 *)
WhileExit ==
    /\ pc = "while"
    /\ ~LoopCondition(args.months, month_counter)
    /\ returned' = <<results>>
    /\ pc' = "returned"
    /\ UNCHANGED <<args, locals, raised, csv_file, log>>

(* lines 71-72: break, then return results *)
Break ==
    /\ pc = "while"
    /\ LoopCondition(args.months, month_counter)
    /\ FullyRepaid(balance)
    /\ returned' = <<results>>
    /\ pc' = "returned"
    /\ UNCHANGED <<args, locals, raised, csv_file, log>>

(* lines 74-77 *)
RaiseTooLow ==
    /\ pc = "while"
    /\ LoopCondition(args.months, month_counter)
    /\ ~FullyRepaid(balance)
    /\ TooLow(args.repayment, monthly_interest_rate, balance)
    /\ raised' = ValueError("Repayment is too low to cover the monthly interest. Balance will grow indefinitely.")
    /\ pc' = "raised"
    /\ UNCHANGED <<args, locals, returned, csv_file, log>>

(* lines 79-101: one simulated month, appended to results *)
SimulateMonth ==
    /\ pc = "while"
    /\ LoopCondition(args.months, month_counter)
    /\ ~FullyRepaid(balance)
    /\ ~TooLow(args.repayment, monthly_interest_rate, balance)
    /\ \E interest \in {calculate_monthly_interest(balance, monthly_interest_rate)} :
       \E nb \in {NewBalance(balance, interest, args.repayment)} :
       \E acc \in {RAdd(accumulated_interest, interest)} :
       \E paid \in {NewTotalPaid(total_paid, args.repayment, nb)} :
       \E pct \in {InterestPercentage(acc, paid)} :
           /\ month_counter' = month_counter + 1
           /\ balance' = Clamp(nb)
           /\ accumulated_interest' = acc
           /\ total_paid' = paid
           /\ results' = Append(results,
                  [month |-> month_counter + 1,
                   interest |-> interest,
                   balance |-> Clamp(nb),
                   accumulated_interest |-> acc,
                   total_paid |-> paid,
                   interest_percentage |-> pct])
    /\ pc' = "check"
    /\ UNCHANGED <<args, monthly_interest_rate, returned, raised, csv_file, log>>

(* lines 103-106 *)
RaiseLimit ==
    /\ pc = "check"
    /\ LimitExceeded(month_counter)
    /\ raised' = RuntimeError("Simulation exceeded maximum iterations. Check your inputs.")
    /\ pc' = "raised"
    /\ UNCHANGED <<args, locals, returned, csv_file, log>>

(* ---------------------------------------------------------------------- *)
(* export_results_to_csv, lines 122-174, called at lines 108-117           *)
(* ---------------------------------------------------------------------- *)
(* f"{x:.2f}": x in hundredths, rounded half to even *)
Format2f(x) ==
    LET n == x[1] * 100
        q == n \div x[2]
        r == n % x[2]
    IN  IF 2 * r > x[2] \/ (2 * r = x[2] /\ q % 2 = 1) THEN q + 1 ELSE q

CsvRow(res) ==
    <<res.month, Format2f(res.interest), Format2f(res.balance),
      Format2f(res.accumulated_interest), Format2f(res.total_paid),
      Format2f(res.interest_percentage)>>

CsvContents(rs, a) ==
    <<  <<"Input Parameters", a.principal, a.repayment, a.downpayment,
          a.annual_interest_rate, a.months>>,
        <<>>,
        <<"Month", "Interest", "Balance", "Accumulated Interest", "Total Paid",
          "Interest Percentage">> >>
    \o [i \in 1..Len(rs) |-> CsvRow(rs[i])]

(* lines 108-117: the file is rewritten with the results so far *)
Export ==
    /\ pc = "check"
    /\ ~LimitExceeded(month_counter)
    /\ args.export_to_csv
    /\ csv_file' = CsvContents(results, args)
    /\ log' = log + 1
    /\ pc' = "while"
    /\ UNCHANGED <<args, locals, returned, raised>>

(* line 108 false: next iteration *)
NoExport ==
    /\ pc = "check"
    /\ ~LimitExceeded(month_counter)
    /\ ~args.export_to_csv
    /\ pc' = "while"
    /\ UNCHANGED <<args, locals, returned, raised, csv_file, log>>

Next ==
    \/ Validate
    \/ WhileExit
    \/ Break
    \/ RaiseTooLow
    \/ SimulateMonth
    \/ RaiseLimit
    \/ Export
    \/ NoExport

Spec == Init /\ [][Next]_vars

(* the interpreter always executes the next statement *)
FairSpec == Spec /\ WF_vars(Next)

(* ====================================================================== *)
(* Properties                                                              *)
(* ====================================================================== *)
Terminated == pc \in {"returned", "raised"}

TooLowMessage ==
    "Repayment is too low to cover the monthly interest. Balance will grow indefinitely."

(* the exception is one of the four argument checks *)
IsInputError == raised.type = "ValueError" /\ raised.message # TooLowMessage

IsNonConvergent == raised.type = "ValueError" /\ raised.message = TooLowMessage

IsIterationLimit == raised.type = "RuntimeError"

(* the four preconditions on the arguments, on numerators and denominators *)
Preconditions(a) ==
    /\ a.principal[1] > 0
    /\ a.downpayment[1] >= 0
    /\ a.downpayment[1] * a.principal[2] <= a.principal[1] * a.downpayment[2]
    /\ a.repayment[1] > 0
    /\ a.annual_interest_rate[1] >= 0

StartBalance == RSub(args.principal, args.downpayment)

MonthlyRate == <<args.annual_interest_rate[1], 12 * args.annual_interest_rate[2]>>

(* repayment <= MonthlyRate * b, cross-multiplied *)
InterestNotCovered(b) ==
    args.repayment[1] * MonthlyRate[2] * b[2] <= MonthlyRate[1] * b[1] * args.repayment[2]

(* the balance before month i of the ledger rs *)
BalanceBefore(rs, i) == IF i = 1 THEN StartBalance ELSE rs[i - 1].balance

PaidBefore(rs, i) == IF i = 1 THEN RZero ELSE rs[i - 1].total_paid

(* The records examined in a state: the list only grows by Append, so the *)
(* newest record is examined in every state, and the whole list in every   *)
(* state in which the call has returned or raised.                         *)
Examined == IF Terminated THEN 1..Len(results) ELSE {Len(results)} \ {0}

(* C2: simulate fails with an input error, before any iteration and with  *)
(* no record produced, exactly when one of the four preconditions on the   *)
(* arguments is violated.                                                  *)
C2_InputErrorIffInvalid ==
    /\ pc # "validate" => (IsInputError <=> ~Preconditions(args))
    /\ IsInputError =>
          /\ pc = "raised"
          /\ month_counter = 0
          /\ results = <<>>
          /\ returned = <<>>

C2_Witness ==
    /\ IsInputError
    /\ args.principal = Rat(1000)
    /\ args.downpayment = Rat(1500)

(* C3: at the start of an iteration with balance > 0 the call fails with   *)
(* the non-convergence error exactly when repayment <= monthlyRate *       *)
(* balance; the failing iteration simulates no month and nothing is        *)
(* returned.                                                               *)
C3_NonConvergentExactly ==
    [][ (pc = "while" /\ LoopCondition(args.months, month_counter) /\ balance[1] > 0)
        => ( (pc' = "raised" /\ IsNonConvergent' /\ returned' = <<>>
                /\ UNCHANGED locals)
             <=> InterestNotCovered(balance) ) ]_vars

C3_Witness ==
    /\ IsNonConvergent
    /\ args.principal = Rat(1000)
    /\ args.repayment = Rat(1)
    /\ args.annual_interest_rate = <<3, 25>>
    /\ month_counter = 0
    /\ returned = <<>>

(* C4 as claimed: month_counter never exceeds MAX_ITERATIONS and at most   *)
(* MAX_ITERATIONS records are appended.                                    *)
C4_WithinCeiling ==
    /\ month_counter <= MAX_ITERATIONS
    /\ Len(results) <= MAX_ITERATIONS

(* C5 as claimed: simulate writes nothing to the file or the log.          *)
C5_NoOutputWritten ==
    /\ csv_file = <<>>
    /\ log = 0

(* C6: every call returns or raises, after at most MAX_ITERATIONS + 1      *)
(* iterations of the loop.                                                 *)
C6_Terminates ==
    /\ <>Terminated
    /\ [](month_counter <= MAX_ITERATIONS + 1)

C6_Witness ==
    /\ IsIterationLimit
    /\ pc = "raised"
    /\ args.months = 0

(* C7: in the month whose balance + interest - repayment is negative       *)
(* total_paid grows by balance_before + interest and the balance recorded  *)
(* is 0; in every other month total_paid grows by repayment; so every      *)
(* record has total_paid + balance = principal - downpayment +             *)
(* accumulated_interest.                                                   *)
C7_FinalPayment ==
    \A i \in Examined :
        LET r == results[i]
            before == BalanceBefore(results, i)
            grown == RSub(r.total_paid, PaidBefore(results, i))
        IN  /\ IF RLt(RAdd(before, r.interest), args.repayment)
               THEN grown = RAdd(before, r.interest) /\ r.balance = RZero
               ELSE grown = args.repayment
            /\ RAdd(r.total_paid, r.balance) = RAdd(StartBalance, r.accumulated_interest)

C7_Witness ==
    /\ args.principal = Rat(105)
    /\ pc = "returned"
    /\ Len(results) = 2
    /\ results[1].total_paid = Rat(100)
    /\ results[2].total_paid = Rat(105)
    /\ results[2].balance = RZero

(* C9: accumulated_interest and total_paid never decrease from one record  *)
(* to the next.                                                            *)
C9_Monotone ==
    \A i \in Examined \ {1} :
        /\ RLe(results[i - 1].accumulated_interest, results[i].accumulated_interest)
        /\ RLe(results[i - 1].total_paid, results[i].total_paid)

C9_Witness ==
    /\ pc = "returned"
    /\ Len(results) >= 3
    /\ RLt(results[Len(results)].total_paid,
           RAdd(results[Len(results) - 1].total_paid, args.repayment))
    /\ RLt(RZero, results[Len(results)].interest)

(* C10: the non-convergence error is raised only in the first iteration:   *)
(* every simulated month strictly lowers the balance, the check passes in  *)
(* every later iteration, and no record exists when the error is raised.   *)
C10_OnlyFirstIteration ==
    /\ IsNonConvergent => month_counter = 0 /\ results = <<>>
    /\ \A i \in Examined : RLt(results[i].balance, BalanceBefore(results, i))
    /\ (pc = "while" /\ results # <<>>) => ~InterestNotCovered(balance)

C10_Witness ==
    /\ pc = "while"
    /\ Len(results) >= 2
    /\ RLt(RZero, balance)
    /\ RLt(RZero, monthly_interest_rate)

(* the month in which the recurrence b := b + b * MonthlyRate - repayment, *)
(* started at b in month k, first gives b <= 0, or a month past            *)
(* MAX_ITERATIONS if that takes more than MAX_ITERATIONS months; at rate 0 *)
(* that is the number of repayments that make up b, rounded up             *)
Ceiling(x) == -((-x[1]) \div x[2])

RECURSIVE RepaidIn(_, _)
RepaidIn(b, k) ==
    IF b[1] <= 0 \/ k > MAX_ITERATIONS
    THEN k
    ELSE IF MonthlyRate[1] = 0
    THEN k + Ceiling(RDiv(b, args.repayment))
    ELSE RepaidIn(RSub(RAdd(b, RMul(b, MonthlyRate)), args.repayment), k + 1)

PayoffMonth == RepaidIn(StartBalance, 0)

CompleteLedger ==
    /\ pc = "returned"
    /\ results # <<>>
    /\ results[Len(results)].balance = RZero
    /\ \A i \in 1..Len(results) : results[i].month = i

(* C1 as claimed: every valid call with repayment > monthlyRate *          *)
(* (principal - downpayment) whose loan pays off within the ceiling        *)
(* returns a non-empty ledger ending with balance 0 and months 1..N.       *)
C1_AsClaimed ==
    ( /\ Terminated
      /\ Preconditions(args)
      /\ args.months >= 0
      /\ ~InterestNotCovered(StartBalance)
      /\ PayoffMonth <= MAX_ITERATIONS )
    => CompleteLedger

(* C1 amended: the same, for calls with downpayment < principal whose      *)
(* horizon, when months > 0, is not shorter than the payoff month.         *)
C1_PaidOffLedger ==
    ( /\ Terminated
      /\ Preconditions(args)
      /\ args.months >= 0
      /\ StartBalance[1] > 0
      /\ ~InterestNotCovered(StartBalance)
      /\ PayoffMonth <= MAX_ITERATIONS
      /\ (args.months = 0 \/ PayoffMonth <= args.months) )
    => CompleteLedger

C1_Witness ==
    /\ CompleteLedger
    /\ Len(results) = MAX_ITERATIONS
    /\ args.months = 0

Min(a, b) == IF a < b THEN a ELSE b

ZeroMonths == {i \in 1..Len(results) : results[i].balance = RZero}

(* the first month whose recorded balance is 0; past the horizon if none *)
FirstZeroMonth ==
    IF ZeroMonths = {} THEN args.months + 1
    ELSE CHOOSE i \in ZeroMonths : \A j \in ZeroMonths : i <= j

(* C8 as claimed: with months = M > 0, a call that returns has exactly     *)
(* min(M, P) records, P the first month whose recorded balance is 0.       *)
C8_AsClaimed ==
    (pc = "returned" /\ args.months > 0)
    => Len(results) = Min(args.months, FirstZeroMonth)

(* C8 amended: the same with P = 0 when principal - downpayment is 0, in   *)
(* which case no month is recorded; and month_counter never passes M.      *)
C8_HorizonRecords ==
    /\ (pc = "returned" /\ args.months > 0)
       => Len(results) = (IF StartBalance = RZero THEN 0
                          ELSE Min(args.months, FirstZeroMonth))
    /\ (pc # "validate" /\ args.months > 0) => month_counter <= args.months

C8_Witness ==
    /\ pc = "returned"
    /\ args.principal = Rat(1000)
    /\ args.months = 10
    /\ Len(results) = 10
    /\ \A i \in 1..10 : results[i].interest = RZero
    /\ results[10].balance = RZero

====
